---- MODULE Spec2Model ----
(***************************************************************************)
(* Digraph<T> of src/Digraph/Digraph.hpp (and its std::set variant in      *)
(* src/Stack/Stack.hpp): a map from UID to a node holding the sets `in`    *)
(* and `out` of neighbour UIDs.  A client calls one public method at a     *)
(* time; the call either returns or throws, and the client then goes on.   *)
(* The LinkedList<T> of src/unnamed/part_000 and the Stack<T> of           *)
(* src/unnamed/part_001 and src/LinkedList/LinkedList.hpp follow, each     *)
(* with its own client and specification.                                  *)
(***************************************************************************)
EXTENDS Integers, Sequences, FiniteSets, TLC

\* Number of distinct UIDs the client draws its arguments from.
MaxUid == 3

UID == 0 .. (MaxUid - 1)

\* The client stops adding arcs once the graph holds this many.
MaxArcs == 4

\* The client of a LinkedList adds no element to a list whose size has
\* reached MaxListSize.
MaxListSize == 3

\* ... and none while more than MaxCells - 2 Node objects are alive (a stale
\* tail keeps removed nodes alive, and insert at 0 makes two objects).
MaxCells == 4

\* The client of a Stack pushes nothing on a stack that holds MaxStackDepth
\* values.
MaxStackDepth == 3

\* The values of T the clients of LinkedList and Stack store.
Values == {0, 1}

\* The contents the caller's vector may have when a search is called.
VecInputs == {<<>>, <<0>>}

\* What a call can end with: a normal return or one of the two exceptions.
NoError == "none"
NodeNotFound == "node_not_found"
NodeUniquenessViolation == "node_uniqueness_violation"

VARIABLES
    nodes,   \* Digraph::nodes: UID -> Node, the domain is the set of live UIDs
    pc,      \* the client: "idle" (between calls), "running" (inside a search that
             \* is followed step by step) or "done" (a call just ended)
    last,    \* the call that just ended: method, arguments, exception, return value
    pre,     \* Digraph::nodes as it was when that call started
    vec,     \* the caller's vector handed to bfSearch / dfSearch, after the call
    vecPre,  \* that vector as it was when the call started
    gone,    \* history: the UIDs deleteNode removed together with arcs and that
             \* were not nodes again when the call that just ended started
    run,     \* the locals of a search followed step by step: visited / traversed,
             \* index, the out-neighbours the running for loop has still to
             \* yield, and the stack of dfs calls
    list,    \* a LinkedList<T>: head, tail, size and the Node<T> objects alive
    listPre, \* that list as it was when the call that just ended started
    listCall, \* the LinkedList call that just ended
    stack,   \* a Stack<T> of src/unnamed/part_001: top and the StackItem<T> objects
    rawStack, \* a Stack<T> of src/LinkedList/LinkedList.hpp (raw pointers)
    stackPre, \* the two stacks and lifo as they were when the call that just
             \* ended started
    stackCall, \* the Stack call that just ended
    lifo     \* history, one sequence for each of the two stacks: the values
             \* pushed and not yet popped, oldest first

\* The LinkedList and the history of its calls.
listVars == <<list, listPre, listCall>>

\* The two Stacks and the history of their calls.
stackVars == <<stack, rawStack, stackPre, stackCall, lifo>>

containers == <<listVars, stackVars>>

\* The Digraph, its client's vector and the history of its calls.
digraph == <<nodes, last, pre, vec, vecPre, gone, run>>

vars == <<nodes, pc, last, pre, vec, vecPre, gone, run, list, listPre, listCall,
          stack, rawStack, stackPre, stackCall, lifo>>

\* Node<T>::Node(uid): both neighbour sets start empty.
Node(uid) == [uid |-> uid, in |-> {}, out |-> {}]

\* The empty map of a default-constructed Digraph.
EmptyNodes == [u \in {} |-> Node(u)]

\* nodes.find(uid) != nodes.end()
Has(ns, uid) == uid \in DOMAIN ns

\* getNode: the node's position, or node_not_found.
getNode(ns, uid) ==
    IF Has(ns, uid) THEN [err |-> NoError, uid |-> uid]
    ELSE [err |-> NodeNotFound, uid |-> uid]

\* nodes[uid] = new Node: the map gains (or overwrites) the key uid.
MapPut(ns, uid, n) == [u \in (DOMAIN ns) \cup {uid} |-> IF u = uid THEN n ELSE ns[u]]

\* nodes.erase(itr): the map loses the key.
MapErase(ns, uid) == [u \in (DOMAIN ns) \ {uid} |-> ns[u]]

\* Every order in which a range-for may walk a set (the iteration order of
\* std::unordered_set is unspecified).
RECURSIVE Orders(_)
Orders(S) ==
    IF S = {} THEN {<<>>}
    ELSE UNION { { <<x>> \o s : s \in Orders(S \ {x}) } : x \in S }

----
\* addNode as it would be if operator[] ran before the existence test: the
\* duplicate is reported, but the existing node is already replaced.
addNode_overwrite(ns, uid) ==
    [nodes |-> MapPut(ns, uid, Node(uid)),
     err |-> IF Has(ns, uid) THEN NodeUniquenessViolation ELSE NoError]

addNode(ns, uid) ==
    IF ~Has(ns, uid)
    THEN [nodes |-> MapPut(ns, uid, Node(uid)), err |-> NoError]
    ELSE [nodes |-> ns, err |-> NodeUniquenessViolation]

\* The first loop of deleteNode left out: the in-neighbours keep uid in `out`.
eraseFromOut_skip(ns, order, i, uid) == [nodes |-> ns, err |-> NoError]

\* The first loop of deleteNode with out.clear() in place of out.erase(uid).
RECURSIVE eraseFromOut_clear(_, _, _, _)
eraseFromOut_clear(ns, order, i, uid) ==
    IF i > Len(order) THEN [nodes |-> ns, err |-> NoError]
    ELSE IF getNode(ns, order[i]).err # NoError THEN [nodes |-> ns, err |-> NodeNotFound]
    ELSE eraseFromOut_clear([ns EXCEPT ![order[i]].out = {}], order, i + 1, uid)

\* for (in_neighbour : order) getNode(in_neighbour)->out.erase(uid);
\* stops at the first neighbour getNode does not find.
RECURSIVE eraseFromOut(_, _, _, _)
eraseFromOut(ns, order, i, uid) ==
    IF i > Len(order) THEN [nodes |-> ns, err |-> NoError]
    ELSE IF getNode(ns, order[i]).err # NoError THEN [nodes |-> ns, err |-> NodeNotFound]
    ELSE eraseFromOut([ns EXCEPT ![order[i]].out = @ \ {uid}], order, i + 1, uid)

\* The second loop of deleteNode left out: the out-neighbours keep uid in `in`.
eraseFromIn_skip(ns, order, i, uid) == [nodes |-> ns, err |-> NoError]

\* for (out_neighbour : order) getNode(out_neighbour)->in.erase(uid);
RECURSIVE eraseFromIn(_, _, _, _)
eraseFromIn(ns, order, i, uid) ==
    IF i > Len(order) THEN [nodes |-> ns, err |-> NoError]
    ELSE IF getNode(ns, order[i]).err # NoError THEN [nodes |-> ns, err |-> NodeNotFound]
    ELSE eraseFromIn([ns EXCEPT ![order[i]].in = @ \ {uid}], order, i + 1, uid)

\* deleteNode without its two loops: the node is erased and nothing else.
deleteNode_noCleanup(ns, uid) ==
    IF getNode(ns, uid).err # NoError THEN {[nodes |-> ns, err |-> NodeNotFound]}
    ELSE {[nodes |-> MapErase(ns, uid), err |-> NoError]}

\* deleteNode that takes the node out of the map first and then walks copies
\* of its two sets: the lookup of the node itself, for a self-loop, fails.
deleteNode_eraseFirst(ns, uid) ==
    IF getNode(ns, uid).err # NoError THEN {[nodes |-> ns, err |-> NodeNotFound]}
    ELSE UNION {
        LET r1 == eraseFromOut(MapErase(ns, uid), inOrder, 1, uid) IN
        IF r1.err # NoError THEN {r1}
        ELSE { eraseFromIn(r1.nodes, outOrder, 1, uid) : outOrder \in Orders(ns[uid].out) }
        : inOrder \in Orders(ns[uid].in) }

\* deleteNode: the set of outcomes over the iteration orders of the two loops.
deleteNode(ns, uid) ==
    IF getNode(ns, uid).err # NoError THEN {[nodes |-> ns, err |-> NodeNotFound]}
    ELSE UNION {
        LET r1 == eraseFromOut(ns, inOrder, 1, uid) IN
        IF r1.err # NoError THEN {r1}
        ELSE { LET r2 == eraseFromIn(r1.nodes, outOrder, 1, uid) IN
               IF r2.err # NoError THEN r2
               ELSE [nodes |-> MapErase(r2.nodes, uid), err |-> NoError]
               : outOrder \in Orders(r1.nodes[uid].out) }
        : inOrder \in Orders(ns[uid].in) }

\* addArc inserting into from's out set before it looks up to_uid.
addArc_insertBeforeLookup(ns, from_uid, to_uid) ==
    IF getNode(ns, from_uid).err # NoError THEN [nodes |-> ns, err |-> NodeNotFound]
    ELSE LET n1 == [ns EXCEPT ![from_uid].out = @ \cup {to_uid}] IN
         IF getNode(ns, to_uid).err # NoError THEN [nodes |-> n1, err |-> NodeNotFound]
         ELSE [nodes |-> [n1 EXCEPT ![to_uid].in = @ \cup {from_uid}], err |-> NoError]

\* addArc that links the two nodes in both directions.
addArc_bidirectional(ns, from_uid, to_uid) ==
    IF getNode(ns, from_uid).err # NoError THEN [nodes |-> ns, err |-> NodeNotFound]
    ELSE IF getNode(ns, to_uid).err # NoError THEN [nodes |-> ns, err |-> NodeNotFound]
    ELSE LET n1 == [ns EXCEPT ![from_uid].out = @ \cup {to_uid}, ![from_uid].in = @ \cup {to_uid}] IN
         [nodes |-> [n1 EXCEPT ![to_uid].in = @ \cup {from_uid}, ![to_uid].out = @ \cup {from_uid}],
          err |-> NoError]

\* addArc that treats an arc already present as a uniqueness violation.
addArc_rejectExisting(ns, from_uid, to_uid) ==
    IF getNode(ns, from_uid).err # NoError THEN [nodes |-> ns, err |-> NodeNotFound]
    ELSE IF getNode(ns, to_uid).err # NoError THEN [nodes |-> ns, err |-> NodeNotFound]
    ELSE IF to_uid \in ns[from_uid].out THEN [nodes |-> ns, err |-> NodeUniquenessViolation]
    ELSE LET n1 == [ns EXCEPT ![from_uid].out = @ \cup {to_uid}] IN
         [nodes |-> [n1 EXCEPT ![to_uid].in = @ \cup {from_uid}], err |-> NoError]

\* addArc that forgets the insertion into to's in set.
addArc_forgetIn(ns, from_uid, to_uid) ==
    IF getNode(ns, from_uid).err # NoError THEN [nodes |-> ns, err |-> NodeNotFound]
    ELSE IF getNode(ns, to_uid).err # NoError THEN [nodes |-> ns, err |-> NodeNotFound]
    ELSE [nodes |-> [ns EXCEPT ![from_uid].out = @ \cup {to_uid}], err |-> NoError]

addArc(ns, from_uid, to_uid) ==
    IF getNode(ns, from_uid).err # NoError THEN [nodes |-> ns, err |-> NodeNotFound]
    ELSE IF getNode(ns, to_uid).err # NoError THEN [nodes |-> ns, err |-> NodeNotFound]
    ELSE LET n1 == [ns EXCEPT ![from_uid].out = @ \cup {to_uid}] IN
         [nodes |-> [n1 EXCEPT ![to_uid].in = @ \cup {from_uid}], err |-> NoError]

\* deleteArc that erases the link in both directions.
deleteArc_bothDirections(ns, from_uid, to_uid) ==
    IF getNode(ns, from_uid).err # NoError THEN [nodes |-> ns, err |-> NodeNotFound]
    ELSE IF getNode(ns, to_uid).err # NoError THEN [nodes |-> ns, err |-> NodeNotFound]
    ELSE LET n1 == [ns EXCEPT ![from_uid].out = @ \ {to_uid}, ![from_uid].in = @ \ {to_uid}] IN
         [nodes |-> [n1 EXCEPT ![to_uid].in = @ \ {from_uid}, ![to_uid].out = @ \ {from_uid}],
          err |-> NoError]

\* deleteArc with the two iterators swapped: it erases the arc to -> from.
deleteArc_swapped(ns, from_uid, to_uid) ==
    IF getNode(ns, from_uid).err # NoError THEN [nodes |-> ns, err |-> NodeNotFound]
    ELSE IF getNode(ns, to_uid).err # NoError THEN [nodes |-> ns, err |-> NodeNotFound]
    ELSE LET n1 == [ns EXCEPT ![to_uid].out = @ \ {from_uid}] IN
         [nodes |-> [n1 EXCEPT ![from_uid].in = @ \ {to_uid}], err |-> NoError]

deleteArc(ns, from_uid, to_uid) ==
    IF getNode(ns, from_uid).err # NoError THEN [nodes |-> ns, err |-> NodeNotFound]
    ELSE IF getNode(ns, to_uid).err # NoError THEN [nodes |-> ns, err |-> NodeNotFound]
    ELSE LET n1 == [ns EXCEPT ![from_uid].out = @ \ {to_uid}] IN
         [nodes |-> [n1 EXCEPT ![to_uid].in = @ \ {from_uid}], err |-> NoError]

\* checkArc that looks up to_uid as well and throws when it is missing.
checkArc_validatesTo(ns, from_uid, to_uid) ==
    IF getNode(ns, from_uid).err # NoError
    THEN [nodes |-> ns, err |-> NodeNotFound, ret |-> FALSE]
    ELSE IF getNode(ns, to_uid).err # NoError
    THEN [nodes |-> ns, err |-> NodeNotFound, ret |-> FALSE]
    ELSE [nodes |-> ns, err |-> NoError, ret |-> to_uid \in ns[from_uid].out]

checkArc(ns, from_uid, to_uid) ==
    IF getNode(ns, from_uid).err # NoError
    THEN [nodes |-> ns, err |-> NodeNotFound, ret |-> FALSE]
    ELSE [nodes |-> ns, err |-> NoError, ret |-> to_uid \in ns[from_uid].out]

\* outDegree reading nodes[uid] (operator[]) in place of getNode: a missing
\* uid is inserted as an empty node and no exception is thrown.
outDegree_insertsMissing(ns, uid) ==
    LET n1 == IF Has(ns, uid) THEN ns ELSE MapPut(ns, uid, Node(uid)) IN
    [nodes |-> n1, err |-> NoError, ret |-> Cardinality(n1[uid].out)]

outDegree(ns, uid) ==
    IF getNode(ns, uid).err # NoError THEN [nodes |-> ns, err |-> NodeNotFound, ret |-> 0]
    ELSE [nodes |-> ns, err |-> NoError, ret |-> Cardinality(ns[uid].out)]

inDegree(ns, uid) ==
    IF getNode(ns, uid).err # NoError THEN [nodes |-> ns, err |-> NodeNotFound, ret |-> 0]
    ELSE [nodes |-> ns, err |-> NoError, ret |-> Cardinality(ns[uid].in)]

\* The inner loop of bfSearch with vec.insert(vec.begin(), ...) in place of
\* vec.push_back(...).
RECURSIVE bfPush_front(_, _, _, _)
bfPush_front(order, i, v, visited) ==
    IF i > Len(order) THEN [vec |-> v, visited |-> visited]
    ELSE IF order[i] \notin visited
    THEN bfPush_front(order, i + 1, <<order[i]>> \o v, visited \cup {order[i]})
    ELSE bfPush_front(order, i + 1, v, visited)

\* The inner loop of bfSearch over one iteration order of curr_node's out set:
\* a neighbour not yet visited is pushed to vec and marked visited.
RECURSIVE bfPush(_, _, _, _)
bfPush(order, i, v, visited) ==
    IF i > Len(order) THEN [vec |-> v, visited |-> visited]
    ELSE IF order[i] \notin visited
    THEN bfPush(order, i + 1, Append(v, order[i]), visited \cup {order[i]})
    ELSE bfPush(order, i + 1, v, visited)

\* The outer loop of bfSearch: index runs until it meets vec.size().
RECURSIVE bfLoop(_, _, _, _)
bfLoop(ns, v, visited, index) ==
    IF index = Len(v) THEN {[nodes |-> ns, vec |-> v, err |-> NoError]}
    ELSE LET curr_uid == v[index + 1] IN
         IF getNode(ns, curr_uid).err # NoError
         THEN {[nodes |-> ns, vec |-> v, err |-> NodeNotFound]}
         ELSE UNION { bfLoop(ns, p.vec, p.visited, index + 1) :
                      p \in { bfPush(order, 1, v, visited) : order \in Orders(ns[curr_uid].out) } }

\* bfSearch without visited.insert(root_uid).
bfSearch_rootNotVisited(ns, root_uid, v) ==
    bfLoop(ns, Append(v, root_uid), {}, 0)

\* bfSearch: the set of outcomes over the iteration orders of the out sets.
bfSearch(ns, root_uid, v) ==
    bfLoop(ns, Append(v, root_uid), {root_uid}, 0)

RECURSIVE dfs(_, _, _, _), dfsLoop(_, _, _, _, _)

\* The closure dfs with vec.push_back(curr_uid) moved before the loop.
dfs_preorder(ns, curr_uid, traversed, v) ==
    LET t1 == traversed \cup {curr_uid} IN
    IF getNode(ns, curr_uid).err # NoError
    THEN {[vec |-> v, traversed |-> t1, err |-> NodeNotFound]}
    ELSE { IF r.err # NoError THEN r
           ELSE [r EXCEPT !.vec = SubSeq(r.vec, 1, Len(r.vec) - 1)]
           : r \in dfsLoop(ns, ns[curr_uid].out, t1, Append(v, curr_uid), curr_uid) }

\* The closure dfs of dfSearch and its loop over curr_node's out set.  rest is
\* the part of the out set the loop has not reached yet; the loop takes its
\* elements in any order, and one already traversed is passed over.
dfs(ns, curr_uid, traversed, v) ==
    LET t1 == traversed \cup {curr_uid} IN
    IF getNode(ns, curr_uid).err # NoError
    THEN {[vec |-> v, traversed |-> t1, err |-> NodeNotFound]}
    ELSE dfsLoop(ns, ns[curr_uid].out, t1, v, curr_uid)

\* The loop of dfs with a break after the first neighbour it recurses into.
dfsLoop_firstOnly(ns, rest, traversed, v, curr_uid) ==
    LET todo == rest \ traversed IN
    IF todo = {} THEN {[vec |-> Append(v, curr_uid), traversed |-> traversed, err |-> NoError]}
    ELSE UNION { { IF r.err # NoError THEN r
                   ELSE [vec |-> Append(r.vec, curr_uid), traversed |-> r.traversed,
                         err |-> NoError]
                   : r \in dfs(ns, out_neighbour, traversed, v) }
                 : out_neighbour \in todo }

dfsLoop(ns, rest, traversed, v, curr_uid) ==
    LET todo == rest \ traversed IN
    IF todo = {} THEN {[vec |-> Append(v, curr_uid), traversed |-> traversed, err |-> NoError]}
    ELSE UNION { UNION { IF r.err # NoError THEN {r}
                         ELSE dfsLoop(ns, todo \ {out_neighbour}, r.traversed, r.vec, curr_uid)
                         : r \in dfs(ns, out_neighbour, traversed, v) }
                 : out_neighbour \in todo }

\* dfSearch: the set of outcomes over the iteration orders of the out sets.
dfSearch(ns, root_uid, v) ==
    { [nodes |-> ns, vec |-> r.vec, err |-> r.err] : r \in dfs(ns, root_uid, {}, v) }

----
(***************************************************************************)
(* LinkedList<T> of src/unnamed/part_000: Node<T> objects held by          *)
(* std::shared_ptr.  An object is alive as long as head, tail or the next  *)
(* of an object alive points to it.  Dereferencing a null pointer is       *)
(* undefined behaviour: the model leaves the list in any state of head,    *)
(* tail and size over the objects alive and follows the program no         *)
(* further.                                                                *)
(***************************************************************************)

\* nullptr, and the result of a walk that had to dereference nullptr.
Null == 0
Undef == -1

LengthError == "length_error"
OutOfRange == "out_of_range"
Undefined == "undefined_behaviour"

\* std::numeric_limits<std::size_t>::max(), as far as the model's integers go.
SizeMax == 2147483647

\* Node<T>::Node(value, next)
ListNode(value, next) == [value |-> value, next |-> next]

\* LinkedList<T>::LinkedList()
EmptyList ==
    [head |-> Null, tail |-> Null, size |-> 0, cells |-> [a \in {} |-> ListNode(0, Null)]]

\* LinkedList<T>::isFull()
isFull(L) == L.size = SizeMax

\* std::make_shared: the address of a new object, one no object alive has.
newAddr(cells) == CHOOSE a \in 1 .. (Cardinality(DOMAIN cells) + 1) : a \notin DOMAIN cells

\* The objects after the object n has been constructed at address a.
construct(cells, a, n) == [b \in (DOMAIN cells) \cup {a} |-> IF b = a THEN n ELSE cells[b]]

\* The addresses that can be reached from the addresses in S along next.
RECURSIVE Owned(_, _)
Owned(cells, S) ==
    LET S0 == S \cap DOMAIN cells
        T == (S0 \cup { cells[a].next : a \in S0 }) \cap DOMAIN cells
    IN IF T = S0 THEN T ELSE Owned(cells, T)

\* std::shared_ptr releases what nothing points to any more.
release(L) ==
    LET keep == Owned(L.cells, {L.head, L.tail}) IN
    [L EXCEPT !.cells = [a \in keep |-> L.cells[a]]]

\* The outcomes of a call: it returns, it throws, or it dereferences nullptr.
Returns(L, ret) == {[list |-> release(L), err |-> NoError, ret |-> ret]}
Throws(L, err) == {[list |-> L, err |-> err, ret |-> 0]}
Havoc(L) ==
    { [list |-> [L EXCEPT !.head = h, !.tail = t, !.size = s], err |-> Undefined, ret |-> 0]
      : h \in {Null} \cup DOMAIN L.cells,
        t \in {Null} \cup DOMAIN L.cells,
        s \in 0 .. MaxListSize }

\* temp after n passes of "temp = temp->getNext()"; Undef if temp was nullptr
\* at one of them.
RECURSIVE Walk(_, _, _)
Walk(cells, temp, n) ==
    IF n = 0 THEN temp
    ELSE IF temp \notin DOMAIN cells THEN Undef
    ELSE Walk(cells, cells[temp].next, n - 1)

\* temp after "while (temp->getNext() != tail) temp = temp->getNext();".
RECURSIVE WalkToTail(_, _, _)
WalkToTail(cells, temp, tail) ==
    IF temp \notin DOMAIN cells THEN Undef
    ELSE IF cells[temp].next = tail THEN temp
    ELSE WalkToTail(cells, cells[temp].next, tail)

\* LinkedList<T>::append
append(L, value) ==
    IF L.size = 0
    THEN LET a == newAddr(L.cells) IN
         Returns([head |-> a, tail |-> a, size |-> 1,
                  cells |-> construct(L.cells, a, ListNode(value, Null))], 0)
    ELSE IF isFull(L) THEN Throws(L, LengthError)
    ELSE IF L.tail \notin DOMAIN L.cells THEN Havoc(L)
    ELSE LET a == newAddr(L.cells) IN
         Returns([L EXCEPT !.cells = construct([@ EXCEPT ![L.tail].next = a], a, ListNode(value, Null)),
                           !.tail = a,
                           !.size = @ + 1], 0)

\* LinkedList<T>::insert
insert(L, value, index) ==
    IF isFull(L) THEN Throws(L, LengthError)
    ELSE IF index > L.size THEN Throws(L, OutOfRange)
    ELSE IF index = 0
    THEN IF L.head \notin DOMAIN L.cells THEN Havoc(L)
         ELSE LET copy == newAddr(L.cells)
                  cells1 == construct(L.cells, copy, L.cells[L.head])
                  a == newAddr(cells1)
              IN Returns([L EXCEPT !.cells = construct(cells1, a, ListNode(value, copy)),
                                   !.head = a,
                                   !.size = @ + 1], 0)
    ELSE LET temp == Walk(L.cells, L.head, index - 1) IN
         IF temp \notin DOMAIN L.cells THEN Havoc(L)
         ELSE LET a == newAddr(L.cells) IN
              Returns([L EXCEPT !.cells = construct([@ EXCEPT ![temp].next = a], a,
                                                    ListNode(value, L.cells[temp].next)),
                                !.size = @ + 1], 0)

\* LinkedList<T>::remove
remove(L, index) ==
    IF index >= L.size THEN Throws(L, OutOfRange)
    ELSE IF index = 0
    THEN IF L.head \notin DOMAIN L.cells THEN Havoc(L)
         ELSE Returns([L EXCEPT !.head = L.cells[L.head].next, !.size = @ - 1], 0)
    ELSE IF index = L.size - 1
    THEN LET temp == WalkToTail(L.cells, L.head, L.tail) IN
         IF temp \notin DOMAIN L.cells THEN Havoc(L)
         ELSE Returns([L EXCEPT !.cells[temp].next = Null, !.tail = temp, !.size = @ - 1], 0)
    ELSE LET temp == Walk(L.cells, L.head, index - 1) IN
         IF temp \notin DOMAIN L.cells \/ L.cells[temp].next \notin DOMAIN L.cells THEN Havoc(L)
         ELSE Returns([L EXCEPT !.cells[temp].next = L.cells[L.cells[temp].next].next,
                                !.size = @ - 1], 0)

\* LinkedList<T>::operator[]
at(L, index) ==
    IF index >= L.size THEN Throws(L, OutOfRange)
    ELSE LET temp == Walk(L.cells, L.head, index) IN
         IF temp \notin DOMAIN L.cells THEN Havoc(L)
         ELSE Returns(L, L.cells[temp].value)

----
(***************************************************************************)
(* Stack<T>.  In src/unnamed/part_001 (and, without peek, in               *)
(* src/Stack/Stack.hpp) a StackItem<T> is owned through std::unique_ptr by *)
(* top or by the below of the item above it; destroying an item destroys   *)
(* what it owns.  In src/LinkedList/LinkedList.hpp top and below are raw   *)
(* pointers and pop deletes the item it takes off.                         *)
(***************************************************************************)

\* StackItem<T>::StackItem(value, below)
StackItem(value, below) == [value |-> value, below |-> below]

\* Stack<T>::Stack()
EmptyStack == [top |-> Null, items |-> [a \in {} |-> StackItem(0, Null)]]

\* Stack<T>::isEmpty
isEmpty(S) == S.top = Null

\* ~StackItem: the item at a goes, and so does what its below owns.
RECURSIVE destroy(_, _)
destroy(items, a) ==
    IF a \notin DOMAIN items THEN items
    ELSE destroy([b \in (DOMAIN items) \ {a} |-> items[b]], items[a].below)

\* StackItem<T>::getBelow that hands out below and keeps it as well.
getBelow_keeps(items, a) == [ret |-> items[a].below, items |-> items]

\* StackItem<T>::getBelow: below is moved out of the item.
getBelow(items, a) == [ret |-> items[a].below, items |-> [items EXCEPT ![a].below = Null]]

\* Stack<T>::push (std::unique_ptr): the new item takes over top.
push(S, value) ==
    LET a == newAddr(S.items) IN
    IF ~isEmpty(S)
    THEN [top |-> a, items |-> construct(S.items, a, StackItem(value, S.top))]
    ELSE [top |-> a, items |-> construct(S.items, a, StackItem(value, Null))]

\* Stack<T>::pop (std::unique_ptr): top = top->getBelow() destroys the item
\* top owned once top holds what getBelow returned.
pop(S) ==
    IF ~isEmpty(S)
    THEN LET ret == S.items[S.top].value
             b == getBelow(S.items, S.top)
         IN [stack |-> [top |-> b.ret, items |-> destroy(b.items, S.top)],
             err |-> NoError, ret |-> ret]
    ELSE [stack |-> S, err |-> OutOfRange, ret |-> 0]

\* Stack<T>::peek
peek(S) ==
    IF ~isEmpty(S)
    THEN [stack |-> S, err |-> NoError, ret |-> S.items[S.top].value]
    ELSE [stack |-> S, err |-> OutOfRange, ret |-> 0]

\* Stack<T>::push (raw pointers)
rawPush(S, value) ==
    LET new_item == newAddr(S.items)
        items1 == construct(S.items, new_item, StackItem(value, Null))
    IN IF ~isEmpty(S)
       THEN [top |-> new_item, items |-> [items1 EXCEPT ![new_item].below = S.top]]
       ELSE [top |-> new_item, items |-> items1]

\* Stack<T>::pop (raw pointers): delete temp frees that one item.
rawPop(S) ==
    IF ~isEmpty(S)
    THEN LET ret == S.items[S.top].value
             temp == S.top
         IN [stack |-> [top |-> S.items[S.top].below,
                        items |-> [b \in (DOMAIN S.items) \ {temp} |-> S.items[b]]],
             err |-> NoError, ret |-> ret]
    ELSE [stack |-> S, err |-> OutOfRange, ret |-> 0]

----
\* The record of a finished call.
Call(method, args, err, retBool, retSize) ==
    [method |-> method, args |-> args, err |-> err, retBool |-> retBool, retSize |-> retSize]

NoCall == Call("none", <<>>, NoError, FALSE, 0)

\* The record of a finished LinkedList call.
ListCall(method, args, err, ret) == [method |-> method, args |-> args, err |-> err, ret |-> ret]

NoListCall == ListCall("none", <<>>, NoError, 0)

\* The record of a finished Stack call; variant tells the two stacks apart.
StackCall(variant, method, args, err, ret, retBool) ==
    [variant |-> variant, method |-> method, args |-> args, err |-> err,
     ret |-> ret, retBool |-> retBool]

NoStackCall == StackCall("none", "none", <<>>, NoError, 0, FALSE)

Variants == {"unique_ptr", "raw"}

NoValues == [v \in Variants |-> <<>>]

NoStackPre == [stack |-> EmptyStack, rawStack |-> EmptyStack, lifo |-> NoValues]

\* No search is being followed.
NoRun ==
    [kind |-> "none", visited |-> {}, traversed |-> {}, index |-> 0,
     phase |-> "none", rest |-> {}, stack |-> <<>>]

Init ==
    /\ nodes = EmptyNodes
    /\ pc = "idle"
    /\ last = NoCall
    /\ pre = EmptyNodes
    /\ vec = <<>>
    /\ vecPre = <<>>
    /\ gone = {}
    /\ run = NoRun
    /\ list = EmptyList
    /\ listPre = EmptyList
    /\ listCall = NoListCall
    /\ stack = EmptyStack
    /\ rawStack = EmptyStack
    /\ stackPre = NoStackPre
    /\ stackCall = NoStackCall
    /\ lifo = NoValues

AddNode(uid) ==
    /\ pc = "idle"
    /\ LET r == addNode(nodes, uid) IN
        /\ nodes' = r.nodes
        /\ last' = Call("addNode", <<uid>>, r.err, FALSE, 0)
    /\ pre' = nodes
    /\ pc' = "done"
    /\ UNCHANGED <<vec, vecPre, gone, run, containers>>

DeleteNode(uid) ==
    /\ pc = "idle"
    /\ \E r \in deleteNode(nodes, uid) :
        /\ nodes' = r.nodes
        /\ last' = Call("deleteNode", <<uid>>, r.err, FALSE, 0)
        /\ gone' = IF r.err = NoError /\ nodes[uid].in \cup nodes[uid].out # {}
                   THEN gone \cup {uid}
                   ELSE gone
    /\ pre' = nodes
    /\ pc' = "done"
    /\ UNCHANGED <<vec, vecPre, run, containers>>

\* The arcs of the graph, as the out sets hold them.
Arcs(ns) == { a \in UID \X UID : a[1] \in DOMAIN ns /\ a[2] \in ns[a[1]].out }

\* The first guard after pc is the client's bound on the size of the graph;
\* addArc itself has no such limit.
AddArc(from_uid, to_uid) ==
    /\ pc = "idle"
    /\ Cardinality(Arcs(nodes)) < MaxArcs
    /\ LET r == addArc(nodes, from_uid, to_uid) IN
        /\ nodes' = r.nodes
        /\ last' = Call("addArc", <<from_uid, to_uid>>, r.err, FALSE, 0)
    /\ pre' = nodes
    /\ pc' = "done"
    /\ UNCHANGED <<vec, vecPre, gone, run, containers>>

DeleteArc(from_uid, to_uid) ==
    /\ pc = "idle"
    /\ LET r == deleteArc(nodes, from_uid, to_uid) IN
        /\ nodes' = r.nodes
        /\ last' = Call("deleteArc", <<from_uid, to_uid>>, r.err, FALSE, 0)
    /\ pre' = nodes
    /\ pc' = "done"
    /\ UNCHANGED <<vec, vecPre, gone, run, containers>>

CheckArc(from_uid, to_uid) ==
    /\ pc = "idle"
    /\ LET r == checkArc(nodes, from_uid, to_uid) IN
        /\ nodes' = r.nodes
        /\ last' = Call("checkArc", <<from_uid, to_uid>>, r.err, r.ret, 0)
    /\ pre' = nodes
    /\ pc' = "done"
    /\ UNCHANGED <<vec, vecPre, gone, run, containers>>

OutDegree(uid) ==
    /\ pc = "idle"
    /\ LET r == outDegree(nodes, uid) IN
        /\ nodes' = r.nodes
        /\ last' = Call("outDegree", <<uid>>, r.err, FALSE, r.ret)
    /\ pre' = nodes
    /\ pc' = "done"
    /\ UNCHANGED <<vec, vecPre, gone, run, containers>>

InDegree(uid) ==
    /\ pc = "idle"
    /\ LET r == inDegree(nodes, uid) IN
        /\ nodes' = r.nodes
        /\ last' = Call("inDegree", <<uid>>, r.err, FALSE, r.ret)
    /\ pre' = nodes
    /\ pc' = "done"
    /\ UNCHANGED <<vec, vecPre, gone, run, containers>>

BfSearch(root_uid, v) ==
    /\ pc = "idle"
    /\ \E r \in bfSearch(nodes, root_uid, v) :
        /\ nodes' = r.nodes
        /\ vec' = r.vec
        /\ last' = Call("bfSearch", <<root_uid>>, r.err, FALSE, 0)
    /\ vecPre' = v
    /\ pre' = nodes
    /\ pc' = "done"
    /\ UNCHANGED <<gone, run, containers>>

DfSearch(root_uid, v) ==
    /\ pc = "idle"
    /\ \E r \in dfSearch(nodes, root_uid, v) :
        /\ nodes' = r.nodes
        /\ vec' = r.vec
        /\ last' = Call("dfSearch", <<root_uid>>, r.err, FALSE, 0)
    /\ vecPre' = v
    /\ pre' = nodes
    /\ pc' = "done"
    /\ UNCHANGED <<gone, run, containers>>

\* The client has looked at the outcome and is ready for its next call.
Continue ==
    /\ pc = "done"
    /\ pc' = "idle"
    /\ last' = NoCall
    /\ pre' = EmptyNodes
    /\ vec' = <<>>
    /\ vecPre' = <<>>
    /\ gone' = gone \ DOMAIN nodes
    /\ run' = NoRun
    /\ UNCHANGED <<nodes, containers>>

Next ==
    \/ \E uid \in UID : AddNode(uid)
    \/ \E uid \in UID : DeleteNode(uid)
    \/ \E from_uid, to_uid \in UID : AddArc(from_uid, to_uid)
    \/ \E from_uid, to_uid \in UID : DeleteArc(from_uid, to_uid)
    \/ \E from_uid, to_uid \in UID : CheckArc(from_uid, to_uid)
    \/ \E uid \in UID : OutDegree(uid)
    \/ \E uid \in UID : InDegree(uid)
    \/ \E root_uid \in UID, v \in VecInputs : BfSearch(root_uid, v)
    \/ \E root_uid \in UID, v \in VecInputs : DfSearch(root_uid, v)
    \/ Continue

Spec == Init /\ [][Next]_vars

\* The same behaviours, named apart for the properties of the two searches.
SpecSearch == Init /\ [][Next]_vars

----
\* bfSearch and dfSearch followed one step at a time.  A step is one pass of
\* a for loop or one call or return of the closure dfs; the for loops over an
\* out set yield its elements in any order.

Running(kind) == pc = "running" /\ run.kind = kind

\* bfSearch up to its for loop: the root is pushed and marked visited.
BfStart(root_uid, v) ==
    /\ pc = "idle"
    /\ vec' = Append(v, root_uid)
    /\ run' = [NoRun EXCEPT !.kind = "bf", !.visited = {root_uid}, !.phase = "test"]
    /\ last' = Call("bfSearch", <<root_uid>>, NoError, FALSE, 0)
    /\ vecPre' = v
    /\ pre' = nodes
    /\ pc' = "running"
    /\ UNCHANGED <<nodes, gone, containers>>

\* index != vec.size() holds: curr_uid is read and looked up; getNode throws
\* out of bfSearch, or the loop over curr_node's out set starts.
BfIter ==
    /\ Running("bf")
    /\ run.phase = "test"
    /\ run.index # Len(vec)
    /\ LET curr_uid == vec[run.index + 1] IN
        IF getNode(nodes, curr_uid).err # NoError
        THEN /\ pc' = "done"
             /\ last' = [last EXCEPT !.err = NodeNotFound]
             /\ UNCHANGED run
        ELSE /\ run' = [run EXCEPT !.phase = "inner", !.rest = nodes[curr_uid].out]
             /\ UNCHANGED <<pc, last>>
    /\ UNCHANGED <<nodes, pre, vec, vecPre, gone, containers>>

\* One pass of the loop over the out set: a neighbour not yet visited is
\* pushed and marked.
BfNeighbour ==
    /\ Running("bf")
    /\ run.phase = "inner"
    /\ \E out_neighbour \in run.rest :
        IF out_neighbour \notin run.visited
        THEN /\ vec' = Append(vec, out_neighbour)
             /\ run' = [run EXCEPT !.visited = @ \cup {out_neighbour},
                                   !.rest = @ \ {out_neighbour}]
        ELSE /\ vec' = vec
             /\ run' = [run EXCEPT !.rest = @ \ {out_neighbour}]
    /\ UNCHANGED <<nodes, pc, last, pre, vecPre, gone, containers>>

\* The outer loop without its index++.
bfIndexNext_stuck(index) == index

\* The index after one pass of the outer loop.
bfIndexNext(index) == index + 1

\* The loop over the out set is over: index++.
BfAdvance ==
    /\ Running("bf")
    /\ run.phase = "inner"
    /\ run.rest = {}
    /\ run' = [run EXCEPT !.phase = "test", !.index = bfIndexNext(@)]
    /\ UNCHANGED <<nodes, pc, last, pre, vec, vecPre, gone, containers>>

\* index == vec.size(): bfSearch returns.
BfExit ==
    /\ Running("bf")
    /\ run.phase = "test"
    /\ run.index = Len(vec)
    /\ pc' = "done"
    /\ UNCHANGED <<nodes, last, pre, vec, vecPre, gone, run, containers>>

\* dfs entered without marking curr_uid.
dfsCall_noMark(ns, r, curr_uid) ==
    IF getNode(ns, curr_uid).err # NoError
    THEN [err |-> NodeNotFound, run |-> r]
    ELSE [err |-> NoError,
          run |-> [r EXCEPT !.stack = Append(@, [uid |-> curr_uid, rest |-> ns[curr_uid].out])]]

\* The closure dfs entered with curr_uid, up to its for loop: curr_uid is
\* marked traversed, then looked up; getNode throws, or a frame is on the
\* stack with the whole out set still to iterate.
dfsCall(ns, r, curr_uid) ==
    LET r1 == [r EXCEPT !.traversed = @ \cup {curr_uid}] IN
    IF getNode(ns, curr_uid).err # NoError
    THEN [err |-> NodeNotFound, run |-> r1]
    ELSE [err |-> NoError,
          run |-> [r1 EXCEPT !.stack = Append(@, [uid |-> curr_uid, rest |-> ns[curr_uid].out])]]

\* dfSearch up to the for loop of dfs(root_uid).
DfStart(root_uid, v) ==
    /\ pc = "idle"
    /\ LET c == dfsCall(nodes, [NoRun EXCEPT !.kind = "df"], root_uid) IN
        /\ run' = c.run
        /\ last' = Call("dfSearch", <<root_uid>>, c.err, FALSE, 0)
        /\ pc' = IF c.err # NoError THEN "done" ELSE "running"
    /\ vec' = v
    /\ vecPre' = v
    /\ pre' = nodes
    /\ UNCHANGED <<nodes, gone, containers>>

\* One pass of the for loop of the running dfs: an out-neighbour that is not
\* traversed is entered.
DfNeighbour ==
    /\ Running("df")
    /\ LET top == Len(run.stack) IN
        \E out_neighbour \in run.stack[top].rest :
            LET r1 == [run EXCEPT !.stack[top].rest = @ \ {out_neighbour}] IN
            IF out_neighbour \in run.traversed
            THEN /\ run' = r1
                 /\ UNCHANGED <<pc, last>>
            ELSE LET c == dfsCall(nodes, r1, out_neighbour) IN
                 /\ run' = c.run
                 /\ pc' = IF c.err # NoError THEN "done" ELSE pc
                 /\ last' = [last EXCEPT !.err = c.err]
    /\ UNCHANGED <<nodes, pre, vec, vecPre, gone, containers>>

\* The for loop of the running dfs is over: curr_uid is pushed and dfs
\* returns, to its caller dfs or, from dfs(root_uid), out of dfSearch.
DfReturn ==
    /\ Running("df")
    /\ LET top == Len(run.stack) IN
        /\ run.stack[top].rest = {}
        /\ vec' = Append(vec, run.stack[top].uid)
        /\ run' = [run EXCEPT !.stack = SubSeq(@, 1, top - 1)]
        /\ pc' = IF top = 1 THEN "done" ELSE pc
    /\ UNCHANGED <<nodes, last, pre, vecPre, gone, containers>>

\* A step of the search that is running.
SearchStep ==
    \/ BfIter
    \/ BfNeighbour
    \/ BfAdvance
    \/ BfExit
    \/ DfNeighbour
    \/ DfReturn

NextSteps ==
    \/ \E uid \in UID : AddNode(uid)
    \/ \E uid \in UID : DeleteNode(uid)
    \/ \E from_uid, to_uid \in UID : AddArc(from_uid, to_uid)
    \/ \E from_uid, to_uid \in UID : DeleteArc(from_uid, to_uid)
    \/ \E root_uid \in UID, v \in VecInputs : BfStart(root_uid, v)
    \/ \E root_uid \in UID, v \in VecInputs : DfStart(root_uid, v)
    \/ BfIter
    \/ BfNeighbour
    \/ BfAdvance
    \/ BfExit
    \/ DfNeighbour
    \/ DfReturn
    \/ Continue

\* A search that was called runs on: bfSearch and dfSearch are sequential
\* code, nothing but their own steps stands between the call and its end.
SpecSteps == Init /\ [][NextSteps]_vars /\ WF_vars(SearchStep)

----
\* The client of a LinkedList: one call at a time.  After a call that
\* dereferenced nullptr the client is followed no further.

ListEnd(method, args, r) ==
    /\ list' = r.list
    /\ listCall' = ListCall(method, args, r.err, r.ret)
    /\ listPre' = list
    /\ pc' = IF r.err = Undefined THEN "undefined" ELSE "done"
    /\ UNCHANGED <<digraph, stackVars>>

ListAppend(value) ==
    /\ pc = "idle"
    /\ list.size < MaxListSize
    /\ Cardinality(DOMAIN list.cells) + 2 <= MaxCells
    /\ \E r \in append(list, value) : ListEnd("append", <<value>>, r)

ListInsert(value, index) ==
    /\ pc = "idle"
    /\ list.size < MaxListSize
    /\ Cardinality(DOMAIN list.cells) + 2 <= MaxCells
    /\ \E r \in insert(list, value, index) : ListEnd("insert", <<value, index>>, r)

ListRemove(index) ==
    /\ pc = "idle"
    /\ \E r \in remove(list, index) : ListEnd("remove", <<index>>, r)

ListAt(index) ==
    /\ pc = "idle"
    /\ \E r \in at(list, index) : ListEnd("operator[]", <<index>>, r)

\* The client has looked at the outcome and is ready for its next call.
ListContinue ==
    /\ pc = "done"
    /\ pc' = "idle"
    /\ listCall' = NoListCall
    /\ listPre' = EmptyList
    /\ UNCHANGED <<list, digraph, stackVars>>

NextList ==
    \/ \E value \in Values : ListAppend(value)
    \/ \E value \in Values, index \in 0 .. MaxListSize : ListInsert(value, index)
    \/ \E index \in 0 .. MaxListSize : ListRemove(index)
    \/ \E index \in 0 .. MaxListSize : ListAt(index)
    \/ ListContinue

SpecList == Init /\ [][NextList]_vars

----
\* The client of the two Stacks: one call at a time, on one of them.

StackEnd(variant, method, args, err, ret, retBool) ==
    /\ stackCall' = StackCall(variant, method, args, err, ret, retBool)
    /\ stackPre' = [stack |-> stack, rawStack |-> rawStack, lifo |-> lifo]
    /\ pc' = "done"
    /\ UNCHANGED <<digraph, listVars>>

\* lifo after a value has been pushed, and after a pop.
Pushed(variant, value) == [lifo EXCEPT ![variant] = Append(@, value)]
Popped(variant) ==
    [lifo EXCEPT ![variant] = IF @ = <<>> THEN @ ELSE SubSeq(@, 1, Len(@) - 1)]

Push(value) ==
    /\ pc = "idle"
    /\ Len(lifo["unique_ptr"]) < MaxStackDepth
    /\ stack' = push(stack, value)
    /\ lifo' = Pushed("unique_ptr", value)
    /\ StackEnd("unique_ptr", "push", <<value>>, NoError, 0, FALSE)
    /\ UNCHANGED rawStack

Pop ==
    /\ pc = "idle"
    /\ LET r == pop(stack) IN
        /\ stack' = r.stack
        /\ StackEnd("unique_ptr", "pop", <<>>, r.err, r.ret, FALSE)
    /\ lifo' = Popped("unique_ptr")
    /\ UNCHANGED rawStack

Peek ==
    /\ pc = "idle"
    /\ LET r == peek(stack) IN
        /\ stack' = r.stack
        /\ StackEnd("unique_ptr", "peek", <<>>, r.err, r.ret, FALSE)
    /\ UNCHANGED <<rawStack, lifo>>

IsEmpty ==
    /\ pc = "idle"
    /\ StackEnd("unique_ptr", "isEmpty", <<>>, NoError, 0, isEmpty(stack))
    /\ UNCHANGED <<stack, rawStack, lifo>>

RawPush(value) ==
    /\ pc = "idle"
    /\ Len(lifo["raw"]) < MaxStackDepth
    /\ rawStack' = rawPush(rawStack, value)
    /\ lifo' = Pushed("raw", value)
    /\ StackEnd("raw", "push", <<value>>, NoError, 0, FALSE)
    /\ UNCHANGED stack

RawPop ==
    /\ pc = "idle"
    /\ LET r == rawPop(rawStack) IN
        /\ rawStack' = r.stack
        /\ StackEnd("raw", "pop", <<>>, r.err, r.ret, FALSE)
    /\ lifo' = Popped("raw")
    /\ UNCHANGED stack

RawIsEmpty ==
    /\ pc = "idle"
    /\ StackEnd("raw", "isEmpty", <<>>, NoError, 0, isEmpty(rawStack))
    /\ UNCHANGED <<stack, rawStack, lifo>>

\* The client has looked at the outcome and is ready for its next call.
StackContinue ==
    /\ pc = "done"
    /\ pc' = "idle"
    /\ stackCall' = NoStackCall
    /\ stackPre' = NoStackPre
    /\ UNCHANGED <<stack, rawStack, lifo, digraph, listVars>>

NextStack ==
    \/ \E value \in Values : Push(value)
    \/ Pop
    \/ Peek
    \/ IsEmpty
    \/ \E value \in Values : RawPush(value)
    \/ RawPop
    \/ RawIsEmpty
    \/ StackContinue

SpecStack == Init /\ [][NextStack]_vars

----
\* What the claims speak of.

\* The call that just ended was `method`.
Ended(method) == pc = "done" /\ last.method = method

\* The sets of live UIDs before and after the call.
Live == DOMAIN nodes
LivePre == DOMAIN pre

\* The graph is exactly as it was when the call started.
GraphUnchanged == nodes = pre

\* C1: in every reachable state, whether or not calls raised, each entry of an
\* out set names a live node that holds the owner in its in set, and each
\* entry of an in set names a live node that holds the owner in its out set.
C1_MutualAdjacency ==
    \A A \in DOMAIN nodes :
        /\ \A x \in nodes[A].out : x \in DOMAIN nodes /\ A \in nodes[x].in
        /\ \A y \in nodes[A].in : y \in DOMAIN nodes /\ A \in nodes[y].out

\* C1 witness: a deleteNode has removed a node that had both an in-neighbour
\* and an out-neighbour other than itself, and arcs remain in the graph.
C1_Witness ==
    /\ Ended("deleteNode")
    /\ last.err = NoError
    /\ \E p, q \in Live : p \in pre[last.args[1]].in /\ q \in pre[last.args[1]].out
    /\ Arcs(nodes) # {}

\* C2: deleteNode, addArc, deleteArc, outDegree, inDegree, bfSearch and
\* dfSearch called with an identifier that is not a node (for the two arc
\* methods: either endpoint) raise node_not_found and leave the graph as it was.
C2_NotFoundNoMutation ==
    (/\ pc = "done"
     /\ last.method \in {"deleteNode", "addArc", "deleteArc", "outDegree", "inDegree",
                         "bfSearch", "dfSearch"}
     /\ \E i \in 1 .. Len(last.args) : last.args[i] \notin LivePre)
    => (last.err = NodeNotFound /\ GraphUnchanged)

\* C2 witness: addArc whose from exists and has arcs, and whose to is missing.
C2_Witness ==
    /\ Ended("addArc")
    /\ last.args[1] \in LivePre
    /\ last.args[2] \notin LivePre
    /\ pre[last.args[1]].out # {}
    /\ last.err = NodeNotFound

\* C3: addNode of an identifier that is already a node raises
\* node_uniqueness_violation and leaves the graph as it was, the node's arcs
\* included.
C3_DuplicateRejected ==
    (Ended("addNode") /\ last.args[1] \in LivePre)
    => (last.err = NodeUniquenessViolation /\ GraphUnchanged)

\* C3 witness: the rejected identifier names a node with arcs in and out.
C3_Witness ==
    /\ Ended("addNode")
    /\ last.args[1] \in LivePre
    /\ pre[last.args[1]].out # {}
    /\ pre[last.args[1]].in # {}
    /\ last.err = NodeUniquenessViolation

\* C4: deleteNode of an existing node returns normally, removes that node
\* only, and takes exactly its identifier out of every other node's in and
\* out sets; a former in-neighbour's out-degree and a former out-neighbour's
\* in-degree drop by one.
C4_DeleteNodeExact ==
    (Ended("deleteNode") /\ last.args[1] \in LivePre)
    => LET id == last.args[1] IN
       /\ last.err = NoError
       /\ Live = LivePre \ {id}
       /\ \A u \in Live :
            /\ nodes[u].out = pre[u].out \ {id}
            /\ nodes[u].in = pre[u].in \ {id}
            /\ id \notin nodes[u].out /\ id \notin nodes[u].in
       /\ \A p \in pre[id].in \ {id} :
            /\ p \in Live
            /\ outDegree(nodes, p).ret = outDegree(pre, p).ret - 1
       /\ \A q \in pre[id].out \ {id} :
            /\ q \in Live
            /\ inDegree(nodes, q).ret = inDegree(pre, q).ret - 1
       /\ \A a \in Arcs(pre) : (a[1] # id /\ a[2] # id) => a \in Arcs(nodes)

\* C4 witness: the deleted node had an in-neighbour and an out-neighbour, and
\* an arc between two other nodes is still there.
C4_Witness ==
    /\ Ended("deleteNode")
    /\ last.err = NoError
    /\ \E p, q \in Live :
        /\ p \in pre[last.args[1]].in
        /\ q \in pre[last.args[1]].out
        /\ p # q
        /\ <<p, q>> \in Arcs(nodes)

\* C5: addArc between two existing nodes (a node and itself included) returns
\* normally and adds the arc from -> to and nothing else: to joins from's out
\* set, from joins to's in set, checkArc(from, to) is true, every other set
\* and the node set are as before.
C5_AddArcExact ==
    (Ended("addArc") /\ last.args[1] \in LivePre /\ last.args[2] \in LivePre)
    => LET from_uid == last.args[1]
           to_uid == last.args[2]
       IN
       /\ last.err = NoError
       /\ Live = LivePre
       /\ \A u \in Live :
            /\ nodes[u].out = pre[u].out \cup (IF u = from_uid THEN {to_uid} ELSE {})
            /\ nodes[u].in = pre[u].in \cup (IF u = to_uid THEN {from_uid} ELSE {})
       /\ checkArc(nodes, from_uid, to_uid).ret
       /\ Arcs(nodes) = Arcs(pre) \cup {<<from_uid, to_uid>>}

\* C5 witness: a new arc between two different nodes, the reverse arc absent.
C5_Witness ==
    /\ Ended("addArc")
    /\ last.err = NoError
    /\ last.args[1] # last.args[2]
    /\ <<last.args[1], last.args[2]>> \notin Arcs(pre)
    /\ <<last.args[1], last.args[2]>> \in Arcs(nodes)
    /\ <<last.args[2], last.args[1]>> \notin Arcs(nodes)

\* C6: addArc of an arc that is already there returns normally and leaves
\* the graph as it was, so the degrees after the second call are those after
\* the first.
C6_AddArcIdempotent ==
    (/\ Ended("addArc")
     /\ last.args[1] \in LivePre /\ last.args[2] \in LivePre
     /\ last.args[2] \in pre[last.args[1]].out)
    => /\ last.err = NoError
       /\ GraphUnchanged
       /\ outDegree(nodes, last.args[1]).ret = outDegree(pre, last.args[1]).ret
       /\ inDegree(nodes, last.args[2]).ret = inDegree(pre, last.args[2]).ret

\* C6 witness: addArc has been called on an arc the graph already held.
C6_Witness ==
    /\ Ended("addArc")
    /\ last.args[1] \in LivePre /\ last.args[2] \in LivePre
    /\ last.args[2] \in pre[last.args[1]].out
    /\ last.args[2] \in nodes[last.args[1]].out
    /\ last.err = NoError

\* C7: deleteArc between two existing nodes returns normally and removes the
\* arc from -> to and nothing else: checkArc(from, to) is false, both nodes
\* are still there, every other arc (the reverse arc too) is as before.
C7_DeleteArcExact ==
    (Ended("deleteArc") /\ last.args[1] \in LivePre /\ last.args[2] \in LivePre)
    => LET from_uid == last.args[1]
           to_uid == last.args[2]
       IN
       /\ last.err = NoError
       /\ Live = LivePre
       /\ \A u \in Live :
            /\ nodes[u].out = pre[u].out \ (IF u = from_uid THEN {to_uid} ELSE {})
            /\ nodes[u].in = pre[u].in \ (IF u = to_uid THEN {from_uid} ELSE {})
       /\ ~checkArc(nodes, from_uid, to_uid).ret
       /\ Arcs(nodes) = Arcs(pre) \ {<<from_uid, to_uid>>}

\* C7 witness: an arc between two different nodes was deleted and the
\* reverse arc, there before, is still there.
C7_Witness ==
    /\ Ended("deleteArc")
    /\ last.err = NoError
    /\ last.args[1] # last.args[2]
    /\ <<last.args[1], last.args[2]>> \in Arcs(pre)
    /\ <<last.args[2], last.args[1]>> \in Arcs(pre)
    /\ <<last.args[2], last.args[1]>> \in Arcs(nodes)

\* C8: deleteArc between two existing nodes that have no arc from -> to
\* returns normally and leaves the graph as it was.
C8_DeleteArcIdempotent ==
    (/\ Ended("deleteArc")
     /\ last.args[1] \in LivePre /\ last.args[2] \in LivePre
     /\ last.args[2] \notin pre[last.args[1]].out)
    => /\ last.err = NoError
       /\ GraphUnchanged
       /\ \A u \in Live :
            /\ outDegree(nodes, u).ret = outDegree(pre, u).ret
            /\ inDegree(nodes, u).ret = inDegree(pre, u).ret

\* C8 witness: deleteArc(a, b) was called with no arc a -> b while the arc
\* b -> a was there.
C8_Witness ==
    /\ Ended("deleteArc")
    /\ last.err = NoError
    /\ last.args[1] \in LivePre /\ last.args[2] \in LivePre
    /\ <<last.args[1], last.args[2]>> \notin Arcs(pre)
    /\ <<last.args[2], last.args[1]>> \in Arcs(pre)

\* C9: checkArc raises node_not_found when from is not a node; when from is a
\* node it returns, without raising, whether to is in from's out set, which
\* is false when to is not a node; and in every reachable state checkArc is
\* true only for a to that is a node.
C9_CheckArcFromOnly ==
    /\ Ended("checkArc") =>
        LET from_uid == last.args[1]
            to_uid == last.args[2]
        IN
        /\ from_uid \notin LivePre => last.err = NodeNotFound
        /\ from_uid \in LivePre =>
            /\ last.err = NoError
            /\ last.retBool = (to_uid \in pre[from_uid].out)
            /\ to_uid \notin LivePre => last.retBool = FALSE
        /\ GraphUnchanged
    /\ \A from_uid \in Live, to_uid \in UID :
        checkArc(nodes, from_uid, to_uid).ret => to_uid \in Live

\* C9 witness: checkArc was called on a live from that has arcs and a to that
\* is not a node, and returned false.
C9_Witness ==
    /\ Ended("checkArc")
    /\ last.args[1] \in Live
    /\ last.args[2] \notin Live
    /\ nodes[last.args[1]].out # {}
    /\ last.err = NoError
    /\ last.retBool = FALSE

\* The sum of the out-degrees, and of the in-degrees, of the nodes in S.
RECURSIVE SumOutDegree(_, _)
SumOutDegree(ns, S) ==
    IF S = {} THEN 0
    ELSE LET u == CHOOSE x \in S : TRUE IN outDegree(ns, u).ret + SumOutDegree(ns, S \ {u})

RECURSIVE SumInDegree(_, _)
SumInDegree(ns, S) ==
    IF S = {} THEN 0
    ELSE LET u == CHOOSE x \in S : TRUE IN inDegree(ns, u).ret + SumInDegree(ns, S \ {u})

\* C10: in every reachable state, for every node id, outDegree(id) is the
\* number of nodes b with checkArc(id, b) and inDegree(id) the number of nodes
\* a with checkArc(a, id); the out-degrees and the in-degrees have the same
\* sum; and a call of outDegree or inDegree returns that number.
C10_DegreesCountArcs ==
    /\ \A id \in Live :
        /\ outDegree(nodes, id).ret = Cardinality({ b \in Live : checkArc(nodes, id, b).ret })
        /\ inDegree(nodes, id).ret = Cardinality({ a \in Live : checkArc(nodes, a, id).ret })
    /\ SumOutDegree(nodes, Live) = SumInDegree(nodes, Live)
    /\ (Ended("outDegree") /\ last.args[1] \in Live) =>
        last.retSize = Cardinality({ b \in Live : checkArc(nodes, last.args[1], b).ret })
    /\ (Ended("inDegree") /\ last.args[1] \in Live) =>
        last.retSize = Cardinality({ a \in Live : checkArc(nodes, a, last.args[1]).ret })

\* C10 witness: inDegree returned 2 for a node whose out-degree is different.
C10_Witness ==
    /\ Ended("inDegree")
    /\ last.err = NoError
    /\ last.retSize = 2
    /\ outDegree(nodes, last.args[1]).ret # 2

\* C11: addNode of an identifier that is not a node returns normally and adds
\* a node whose in and out sets are empty (both degrees 0); every other node
\* keeps its in and out sets, and none of them names the new node, also when
\* the identifier was a node with arcs before and deleteNode removed it.
C11_AddNodeFresh ==
    (Ended("addNode") /\ last.args[1] \notin LivePre)
    => LET id == last.args[1] IN
       /\ last.err = NoError
       /\ Live = LivePre \cup {id}
       /\ nodes[id].in = {} /\ nodes[id].out = {}
       /\ outDegree(nodes, id).ret = 0
       /\ inDegree(nodes, id).ret = 0
       /\ \A u \in LivePre :
            /\ nodes[u].in = pre[u].in
            /\ nodes[u].out = pre[u].out
            /\ id \notin nodes[u].in /\ id \notin nodes[u].out
            /\ ~checkArc(nodes, u, id).ret

\* C11 witness: the identifier added was a node with arcs that deleteNode
\* removed, and the graph it is added to has arcs.
C11_Witness ==
    /\ Ended("addNode")
    /\ last.err = NoError
    /\ last.args[1] \in gone
    /\ Arcs(pre) # {}

----
\* What the claims about the searches speak of.

\* The elements of a sequence, and whether none of them occurs twice.
Range(seq) == { seq[i] : i \in 1 .. Len(seq) }
NoRepeat(seq) == \A i, j \in 1 .. Len(seq) : i # j => seq[i] # seq[j]

\* The nodes that can be reached from a node of S along outgoing arcs.
RECURSIVE ReachFrom(_, _)
ReachFrom(ns, S) ==
    LET next == S \cup UNION { ns[u].out : u \in S \cap DOMAIN ns } IN
    IF next = S THEN S ELSE ReachFrom(ns, next)

Reachable(ns, root_uid) == ReachFrom(ns, {root_uid})

\* The length of the shortest path of outgoing arcs from root_uid to u
\* (-1 when there is none): u lies in the d-th layer around root_uid.
RECURSIVE LayerOf(_, _, _, _, _)
LayerOf(ns, layer, seen, d, u) ==
    IF u \in layer THEN d
    ELSE LET next == UNION { ns[w].out : w \in layer \cap DOMAIN ns } \ seen IN
         IF next = {} THEN -1 ELSE LayerOf(ns, next, seen \cup next, d + 1, u)

Dist(ns, root_uid, u) == LayerOf(ns, {root_uid}, {root_uid}, 0, u)

\* A search of an existing root, called with an empty vector, has ended.
SearchEnded(method) ==
    /\ Ended(method)
    /\ last.args[1] \in LivePre
    /\ vecPre = <<>>

\* C12: bfSearch of an existing root with an empty vector returns normally;
\* the vector starts with the root, holds exactly the nodes reachable from the
\* root along outgoing arcs, and holds each of them once.
C12_BfsReachable ==
    SearchEnded("bfSearch")
    => /\ last.err = NoError
       /\ Len(vec) >= 1
       /\ vec[1] = last.args[1]
       /\ Range(vec) = Reachable(pre, last.args[1])
       /\ NoRepeat(vec)

\* C12 witness: the root lies on a cycle with a second node, both are in the
\* output, and a third node, not reachable, is left out.
C12_Witness ==
    /\ SearchEnded("bfSearch")
    /\ last.err = NoError
    /\ Len(vec) = 2
    /\ last.args[1] \in nodes[vec[2]].out
    /\ \E u \in Live : u \notin Range(vec)

C14_DfsReachableRootLast ==
    SearchEnded("dfSearch")
    => /\ last.err = NoError
       /\ Len(vec) >= 1
       /\ vec[Len(vec)] = last.args[1]
       /\ Range(vec) = Reachable(pre, last.args[1])
       /\ NoRepeat(vec)

\* C14 witness: the root has a self-loop and lies on a cycle through two more
\* nodes.
C14_Witness ==
    /\ SearchEnded("dfSearch")
    /\ last.err = NoError
    /\ Len(vec) = 3
    /\ last.args[1] \in nodes[last.args[1]].out
    /\ last.args[1] \in nodes[vec[1]].out
    /\ vec[1] \notin nodes[last.args[1]].out

\* Whether w stands before position i of seq.
Before(seq, w, i) == \E j \in 1 .. (i - 1) : seq[j] = w

\* No node reachable from root_uid can be reached from one of its own
\* out-neighbours.
AcyclicFrom(ns, root_uid) ==
    \A u \in Reachable(ns, root_uid) \cap DOMAIN ns : u \notin ReachFrom(ns, ns[u].out)

\* C15: the output of dfSearch (existing root, empty vector) is a post-order:
\* each out-neighbour w of a node u of the output stands before u, or u can be
\* reached from w; when no cycle can be reached from the root, every node
\* stands after all its out-neighbours.
C15_DfsPostOrder ==
    (SearchEnded("dfSearch") /\ last.err = NoError)
    => /\ \A i \in 1 .. Len(vec) : \A w \in pre[vec[i]].out :
            Before(vec, w, i) \/ vec[i] \in Reachable(pre, w)
       /\ AcyclicFrom(pre, last.args[1]) =>
            \A i \in 1 .. Len(vec) : \A w \in pre[vec[i]].out : Before(vec, w, i)

\* C15 witness: three nodes in the output, and one of them stands before an
\* out-neighbour of its own that is another node (the arc closes a cycle).
C15_Witness ==
    /\ SearchEnded("dfSearch")
    /\ last.err = NoError
    /\ Len(vec) = 3
    /\ \E i \in 1 .. Len(vec) : \E w \in nodes[vec[i]].out :
        w # vec[i] /\ ~Before(vec, w, i)

\* C16: deleteNode of a node that has a self-loop, with or without arcs to
\* and from other nodes, returns normally and removes the node; what remains
\* has mirrored in and out sets that name live nodes only, and keeps every
\* arc that did not touch the node.
C16_DeleteSelfLoopNode ==
    (/\ Ended("deleteNode")
     /\ last.args[1] \in LivePre
     /\ last.args[1] \in pre[last.args[1]].out
     /\ last.args[1] \in pre[last.args[1]].in)
    => LET A == last.args[1] IN
       /\ last.err = NoError
       /\ Live = LivePre \ {A}
       /\ \A u \in Live :
            /\ \A x \in nodes[u].out : x \in Live /\ u \in nodes[x].in
            /\ \A y \in nodes[u].in : y \in Live /\ u \in nodes[y].out
       /\ Arcs(nodes) = { a \in Arcs(pre) : a[1] # A /\ a[2] # A }

\* C16 witness: the deleted node had a self-loop, an in-neighbour and an
\* out-neighbour, and an arc between two other nodes is still there.
C16_Witness ==
    /\ Ended("deleteNode")
    /\ last.err = NoError
    /\ last.args[1] \in pre[last.args[1]].out
    /\ \E p, q \in Live :
        /\ p \in pre[last.args[1]].in
        /\ q \in pre[last.args[1]].out
        /\ Arcs(nodes) # {}

\* The UIDs of the dfs calls on the stack, outermost first.
StackUids == [i \in 1 .. Len(run.stack) |-> run.stack[i].uid]

\* C17: bfSearch and dfSearch end on every graph the public methods can
\* build, cycles, mutual arcs and self-loops included.  While bfSearch runs
\* its index never passes vec.size(), and it ends with index = vec.size()
\* unless getNode threw; while dfSearch runs no node has two dfs calls on the
\* stack and every node on the stack is marked traversed.
C17_SearchesTerminate ==
    /\ [](Running("bf") => run.index <= Len(vec))
    /\ [](Running("df") => (NoRepeat(StackUids) /\ Range(StackUids) \subseteq run.traversed))
    /\ Running("bf") ~> (/\ pc = "done"
                         /\ last.method = "bfSearch"
                         /\ (last.err = NodeNotFound \/ run.index = Len(vec)))
    /\ Running("df") ~> (pc = "done" /\ last.method = "dfSearch" /\ run.stack = <<>>)

\* C17 witness: a search from a root with a self-loop and with a mutual arc
\* to another node has ended, both nodes in vec.
C17_Witness ==
    /\ pc = "done"
    /\ run.kind \in {"bf", "df"}
    /\ last.err = NoError
    /\ vecPre = <<>>
    /\ LET root_uid == last.args[1] IN
        /\ root_uid \in nodes[root_uid].out
        /\ \E q \in Live \ {root_uid} :
            /\ q \in nodes[root_uid].out
            /\ root_uid \in nodes[q].out
            /\ {root_uid, q} \subseteq Range(vec)

\* C18: bfSearch or dfSearch called with a root that is not a node raises
\* node_not_found and leaves the caller's vector as it was; the missing root
\* is not appended to it.
C18_NoPartialResult ==
    (/\ pc = "done"
     /\ last.method \in {"bfSearch", "dfSearch"}
     /\ last.args[1] \notin LivePre)
    => (last.err = NodeNotFound /\ vec = vecPre)

\* C19: deleteNode of an existing node, dfSearch of an existing root, and
\* bfSearch of an existing root with a vector that holds no identifier of a
\* missing node, never raise node_not_found: every getNode they call on an
\* identifier taken out of an in or out set finds its node.
C19_NeighbourLookupsSucceed ==
    /\ (Ended("deleteNode") /\ last.args[1] \in LivePre) => last.err = NoError
    /\ (Ended("dfSearch") /\ last.args[1] \in LivePre) => last.err = NoError
    /\ (Ended("bfSearch") /\ last.args[1] \in LivePre /\ Range(vecPre) \subseteq LivePre)
        => last.err = NoError

\* C19 witness: a search went from its root to a neighbour in a graph out of
\* which a node with arcs had been deleted before.
C19_Witness ==
    /\ pc = "done"
    /\ last.method \in {"bfSearch", "dfSearch"}
    /\ last.err = NoError
    /\ vecPre = <<>>
    /\ Len(vec) >= 2
    /\ gone # {}

\* C20: checkArc, outDegree, inDegree, bfSearch and dfSearch leave the graph
\* as it was, whether they return or raise; the same call on the graph they
\* leave gives the same answer, and for the two searches every outcome holds
\* the same set of nodes.
C20_QueriesLeaveGraph ==
    /\ (pc = "done" /\ last.method \in {"checkArc", "outDegree", "inDegree", "bfSearch", "dfSearch"})
        => GraphUnchanged
    /\ Ended("checkArc") =>
        LET r == checkArc(nodes, last.args[1], last.args[2]) IN
        r.err = last.err /\ r.ret = last.retBool /\ r.nodes = nodes
    /\ Ended("outDegree") =>
        LET r == outDegree(nodes, last.args[1]) IN
        r.err = last.err /\ r.ret = last.retSize /\ r.nodes = nodes
    /\ Ended("inDegree") =>
        LET r == inDegree(nodes, last.args[1]) IN
        r.err = last.err /\ r.ret = last.retSize /\ r.nodes = nodes
    /\ Ended("bfSearch") =>
        \A r \in bfSearch(nodes, last.args[1], vecPre) :
            r.err = last.err /\ Range(r.vec) = Range(vec) /\ r.nodes = nodes
    /\ Ended("dfSearch") =>
        \A r \in dfSearch(nodes, last.args[1], vecPre) :
            r.err = last.err /\ Range(r.vec) = Range(vec) /\ r.nodes = nodes

\* C20 witness: a dfSearch over three nodes that could also have ended with
\* the same nodes in another order.
C20_Witness ==
    /\ Ended("dfSearch")
    /\ last.err = NoError
    /\ Len(vec) = 3
    /\ \E r \in dfSearch(nodes, last.args[1], vecPre) : r.vec # vec

\* What a search appended to the caller's vector.
Appended == SubSeq(vec, Len(vecPre) + 1, Len(vec))

\* C21: bfSearch and dfSearch of an existing root only append to the caller's
\* vector: whatever it held stays in place and is not expanded, the call does
\* not raise, and what is appended is exactly the nodes reachable from the
\* root, each once.
C21_AppendOnlyOutput ==
    (/\ pc = "done"
     /\ last.method \in {"bfSearch", "dfSearch"}
     /\ last.args[1] \in LivePre)
    => /\ last.err = NoError
       /\ Len(vec) >= Len(vecPre)
       /\ SubSeq(vec, 1, Len(vecPre)) = vecPre
       /\ NoRepeat(Appended)
       /\ Range(Appended) = Reachable(pre, last.args[1])

\* The nodes that are reached from head along next, in order, and their values.
RECURSIVE ChainFrom(_, _)
ChainFrom(cells, a) ==
    IF a \notin DOMAIN cells THEN <<>> ELSE <<a>> \o ChainFrom(cells, cells[a].next)

Chain(L) == ChainFrom(L.cells, L.head)
ChainValues(L) == [i \in 1 .. Len(Chain(L)) |-> L.cells[Chain(L)[i]].value]

ListEnded(method) == pc = "done" /\ listCall.method = method /\ listCall.err = NoError

\* C22: as long as no call has had undefined behaviour, size is the number of
\* nodes reached from head and, when size > 0, head and tail are not null and
\* tail is the last of those nodes; after append(value) has returned, the
\* elements are those of before followed by value, which operator[] finds at
\* index size - 1; after insert(value, index) has returned, they are those of
\* before with value put in at index.
C22_ListStructure ==
    (pc \in {"idle", "done"}) =>
        /\ list.size = Len(Chain(list))
        /\ list.size > 0 =>
            /\ list.head # Null
            /\ list.tail # Null
            /\ list.tail = Chain(list)[Len(Chain(list))]
        /\ ListEnded("append") =>
            /\ ChainValues(list) = Append(ChainValues(listPre), listCall.args[1])
            /\ \A r \in at(list, list.size - 1) :
                r.err = NoError /\ r.ret = listCall.args[1]
        /\ ListEnded("insert") =>
            LET old == ChainValues(listPre)
                index == listCall.args[2]
            IN ChainValues(list) =
                SubSeq(old, 1, index) \o <<listCall.args[1]>> \o SubSeq(old, index + 1, Len(old))

\* The values a stack holds, from top down along below.
RECURSIVE ItemsFrom(_, _)
ItemsFrom(items, a) ==
    IF a \notin DOMAIN items THEN <<>> ELSE <<items[a].value>> \o ItemsFrom(items, items[a].below)

Content(S) == ItemsFrom(S.items, S.top)

Reverse(seq) == [i \in 1 .. Len(seq) |-> seq[Len(seq) + 1 - i]]

\* The stack a call was made on, after and before the call.
StackOf(variant) == IF variant = "raw" THEN rawStack ELSE stack
StackPreOf(variant) == IF variant = "raw" THEN stackPre.rawStack ELSE stackPre.stack

StackEnded(method) == pc = "done" /\ stackCall.method = method

\* C23: each stack holds, from top down, the values pushed and not yet
\* popped, newest first, and no other item.  pop returns the newest of them
\* and takes it off; peek returns it and leaves the stack as it was; isEmpty
\* is true exactly when none is left; pop and peek on an empty stack throw
\* out_of_range and leave it empty.
C23_StackLifo ==
    /\ \A v \in Variants :
        /\ Content(StackOf(v)) = Reverse(lifo[v])
        /\ Cardinality(DOMAIN StackOf(v).items) = Len(lifo[v])
    /\ (StackEnded("pop") \/ StackEnded("peek")) =>
        LET v == stackCall.variant
            before == stackPre.lifo[v]
        IN IF before = <<>>
           THEN /\ stackCall.err = OutOfRange
                /\ StackOf(v) = EmptyStack
                /\ lifo[v] = <<>>
           ELSE /\ stackCall.err = NoError
                /\ stackCall.ret = before[Len(before)]
                /\ stackCall.method = "pop" => lifo[v] = SubSeq(before, 1, Len(before) - 1)
                /\ stackCall.method = "peek" => (StackOf(v) = StackPreOf(v) /\ lifo[v] = before)
    /\ StackEnded("isEmpty") =>
        /\ stackCall.retBool = (stackPre.lifo[stackCall.variant] = <<>>)
        /\ StackOf(stackCall.variant) = StackPreOf(stackCall.variant)
    /\ StackEnded("push") =>
        Content(StackOf(stackCall.variant))
            = <<stackCall.args[1]>> \o Content(StackPreOf(stackCall.variant))

\* C23 witness: pop has returned the newest of three values, which differs
\* from the two pushed before it, while the other stack holds a value too.
C23_Witness ==
    /\ StackEnded("pop")
    /\ stackCall.variant = "unique_ptr"
    /\ stackCall.err = NoError
    /\ Len(stackPre.lifo["unique_ptr"]) = 3
    /\ stackCall.ret # stackPre.lifo["unique_ptr"][2]
    /\ stackCall.ret # stackPre.lifo["unique_ptr"][1]
    /\ Len(lifo["unique_ptr"]) = 2
    /\ lifo["raw"] # <<>>

====
